---- MODULE Spec2Model ----
(***************************************************************************)
(* Model of python/nhtsa_recall_lookup.py: the RecallRecord normalisation, *)
(* the two lru_cache-memoised lookups of NHTSARecallLookup and clear_cache.*)
(*                                                                         *)
(* Python values are tagged records.  A Python str is a sequence of        *)
(* one-character strings, so that strip() and lower() are computed.        *)
(***************************************************************************)
EXTENDS Integers, Sequences, FiniteSets, TLC

VARIABLES
    vehicle_cache,   \* lru_cache of get_recalls_for_vehicle: <<[key, value]>>, least recent first
    campaign_cache,  \* lru_cache of get_recall_by_campaign_number, same layout
    call,            \* the last completed call: what it was given, what it did, what it gave back
    first_fetch,     \* history: the first lookup since the last clear_cache that got a JSON answer
    input            \* the value or entry under study, drawn once by Init

vars == <<vehicle_cache, campaign_cache, call, first_fetch, input>>

----------------------------------------------------------------------------
(* Python values *)

None == [t |-> "none"]
Bool(b) == [t |-> "bool", v |-> b]
Num(n) == [t |-> "num", v |-> n]
Str(s) == [t |-> "str", v |-> s]
List(xs) == [t |-> "list", v |-> xs]
Dict(f) == [t |-> "dict", v |-> f]

\* A dict with no key: a function with the empty domain.
EmptyMap == [k \in {} |-> None]

\* dict.get(key): the value under key, None when the key is missing.
Get(d, key) == IF key \in DOMAIN d.v THEN d.v[key] ELSE None

\* Python truth value of v, as `if v`, `not v` and `a or b` test it.
Truthy(v) ==
    CASE v.t = "none" -> FALSE
      [] v.t = "bool" -> v.v
      [] v.t = "num"  -> v.v # 0
      [] v.t = "str"  -> Len(v.v) > 0
      [] v.t = "list" -> Len(v.v) > 0
      [] v.t = "dict" -> DOMAIN v.v # {}

\* Python `a or b`: a when a is truthy, else b.
Or(a, b) == IF Truthy(a) THEN a ELSE b

----------------------------------------------------------------------------
(* str methods *)

UPPER == <<"A","B","C","D","E","F","G","H","I","J","K","L","M",
           "N","O","P","Q","R","S","T","U","V","W","X","Y","Z">>
LOWER == <<"a","b","c","d","e","f","g","h","i","j","k","l","m",
           "n","o","p","q","r","s","t","u","v","w","x","y","z">>

Whitespace == {" ", "\t", "\n", "\r"}

LowerChar(c) ==
    IF \E i \in 1..Len(UPPER) : UPPER[i] = c
    THEN LOWER[CHOOSE i \in 1..Len(UPPER) : UPPER[i] = c]
    ELSE c

\* str.lower()
lower(s) == [i \in 1..Len(s) |-> LowerChar(s[i])]

RECURSIVE lstrip(_)
lstrip(s) == IF s # <<>> /\ Head(s) \in Whitespace THEN lstrip(Tail(s)) ELSE s

RECURSIVE rstrip(_)
rstrip(s) ==
    IF s # <<>> /\ s[Len(s)] \in Whitespace
    THEN rstrip(SubSeq(s, 1, Len(s) - 1))
    ELSE s

\* str.strip()
strip(s) == rstrip(lstrip(s))

DIGITS == <<"0","1","2","3","4","5","6","7","8","9">>

RECURSIVE DecimalOf(_)
DecimalOf(n) ==
    IF n < 10 THEN <<DIGITS[n + 1]>>
    ELSE DecimalOf(n \div 10) \o <<DIGITS[(n % 10) + 1]>>

\* str(value) for the values a JSON scalar or an empty container decodes to.
str(value) ==
    CASE value.t = "str"  -> value.v
      [] value.t = "none" -> <<"N","o","n","e">>
      [] value.t = "bool" -> IF value.v THEN <<"T","r","u","e">>
                                        ELSE <<"F","a","l","s","e">>
      [] value.t = "num"  -> IF value.v < 0 THEN <<"-">> \o DecimalOf(0 - value.v)
                                            ELSE DecimalOf(value.v)
      [] value.t = "list" /\ value.v = <<>> -> <<"[","]">>
      [] value.t = "dict" /\ DOMAIN value.v = {} -> <<"{","}">>

----------------------------------------------------------------------------
(* NHTSARecallLookup._clean_value and _parse_bool *)

PLACEHOLDERS == { <<>>,
                  <<"n","u","l","l">>,
                  <<"n","o","n","e">>,
                  <<"n","o","t"," ","a","p","p","l","i","c","a","b","l","e">> }

\* _clean_value comparing with the placeholders without lower().
_clean_value_CaseSensitive(value) ==
    IF value = None THEN None
    ELSE LET stripped == strip(str(value)) IN
         IF stripped \in PLACEHOLDERS THEN None ELSE Str(stripped)

_clean_value(value) ==
    IF value = None THEN None
    ELSE LET stripped == strip(str(value)) IN
         IF lower(stripped) \in PLACEHOLDERS THEN None ELSE Str(stripped)

TRUE_TOKENS  == { <<"y">>, <<"y","e","s">>, <<"t","r","u","e">>, <<"t">>, <<"1">> }
FALSE_TOKENS == { <<"n">>, <<"n","o">>, <<"f","a","l","s","e">>, <<"f">>, <<"0">> }

\* _parse_bool comparing the string with the tokens without strip().
_parse_bool_NoStrip(value) ==
    IF value = None THEN None
    ELSE IF value.t = "bool" THEN value
    ELSE IF value.t = "num" /\ value.v = 1 THEN Bool(TRUE)
    ELSE IF value.t = "num" /\ value.v = 0 THEN Bool(FALSE)
    ELSE IF value.t = "str" /\ lower(value.v) \in TRUE_TOKENS THEN Bool(TRUE)
    ELSE IF value.t = "str" /\ lower(value.v) \in FALSE_TOKENS THEN Bool(FALSE)
    ELSE None

_parse_bool(value) ==
    IF value = None THEN None
    ELSE IF value.t = "bool" THEN value
    ELSE IF value.t = "num" /\ value.v = 1 THEN Bool(TRUE)
    ELSE IF value.t = "num" /\ value.v = 0 THEN Bool(FALSE)
    ELSE IF value.t = "str" /\ lower(strip(value.v)) \in TRUE_TOKENS THEN Bool(TRUE)
    ELSE IF value.t = "str" /\ lower(strip(value.v)) \in FALSE_TOKENS THEN Bool(FALSE)
    ELSE None

----------------------------------------------------------------------------
(* RecallRecord construction *)

\* RecallRecord(...) as get_recalls_for_vehicle builds it from one entry.
VehicleRecord(entry) ==
    [ manufacturer          |-> _clean_value(Get(entry, "Manufacturer")),
      nhtsa_campaign_number |-> _clean_value(Or(Get(entry, "NHTSACampaignNumber"),
                                                Get(entry, "nhtsaCampaignNumber"))),
      nhtsa_action_number   |-> _clean_value(Get(entry, "NHTSAActionNumber")),
      report_received_date  |-> _clean_value(Or(Get(entry, "ReportReceivedDate"),
                                                Get(entry, "reportReceivedDate"))),
      component             |-> _clean_value(Get(entry, "Component")),
      summary               |-> _clean_value(Get(entry, "Summary")),
      consequence           |-> _clean_value(Get(entry, "Consequence")),
      remedy                |-> _clean_value(Get(entry, "Remedy")),
      notes                 |-> _clean_value(Get(entry, "Notes")),
      model_year            |-> _clean_value(Or(Get(entry, "ModelYear"), Get(entry, "modelYear"))),
      make                  |-> _clean_value(Or(Get(entry, "Make"), Get(entry, "make"))),
      model                 |-> _clean_value(Or(Get(entry, "Model"), Get(entry, "model"))),
      mfr_recall_number     |-> _clean_value(Or(Get(entry, "mfrRecallNumber"),
                                                Get(entry, "MfrRecallNumber"))),
      over_the_air_update   |-> _parse_bool(Or(Get(entry, "overTheAirUpdate"),
                                               Get(entry, "overTheAirUpdateYn"))),
      park_it               |-> _parse_bool(Get(entry, "parkIt")),
      park_outside          |-> _parse_bool(Or(Or(Get(entry, "parkOutSide"),
                                                  Get(entry, "parkOutside")),
                                               Get(entry, "parkOutsideYn"))),
      additional_fields     |-> entry ]

\* RecallRecord(...) as get_recall_by_campaign_number builds it from results[0].
CampaignRecord(entry) ==
    [ manufacturer          |-> _clean_value(Get(entry, "Manufacturer")),
      nhtsa_campaign_number |-> _clean_value(Or(Get(entry, "NHTSACampaignNumber"),
                                                Get(entry, "nhtsaCampaignNumber"))),
      nhtsa_action_number   |-> _clean_value(Get(entry, "NHTSAActionNumber")),
      report_received_date  |-> _clean_value(Or(Get(entry, "ReportReceivedDate"),
                                                Get(entry, "reportReceivedDate"))),
      component             |-> _clean_value(Get(entry, "Component")),
      summary               |-> _clean_value(Get(entry, "Summary")),
      consequence           |-> _clean_value(Get(entry, "Consequence")),
      remedy                |-> _clean_value(Get(entry, "Remedy")),
      notes                 |-> _clean_value(Get(entry, "Notes")),
      model_year            |-> _clean_value(Or(Get(entry, "ModelYear"), Get(entry, "modelYear"))),
      make                  |-> _clean_value(Or(Get(entry, "Make"), Get(entry, "make"))),
      model                 |-> _clean_value(Or(Get(entry, "Model"), Get(entry, "model"))),
      mfr_recall_number     |-> _clean_value(Or(Get(entry, "mfrRecallNumber"),
                                                Get(entry, "MfrRecallNumber"))),
      over_the_air_update   |-> _parse_bool(Or(Get(entry, "overTheAirUpdate"),
                                               Get(entry, "overTheAirUpdateYn"))),
      park_it               |-> _parse_bool(Get(entry, "parkIt")),
      park_outside          |-> _parse_bool(Or(Or(Get(entry, "parkOutSide"),
                                                  Get(entry, "parkOutside")),
                                               Get(entry, "parkOutsideYn"))),
      additional_fields     |-> entry ]

----------------------------------------------------------------------------
(* The network boundary: what urlopen(...).read() and json.loads give.     *)
(*   [kind |-> "error"]    urlopen raised (URLError, HTTPError, timeout)   *)
(*   [kind |-> "nonjson"]  json.loads raised JSONDecodeError               *)
(*   [kind |-> "json", data |-> v]  the decoded body                       *)

TransportError == [kind |-> "error"]
NotJson == [kind |-> "nonjson"]
Json(v) == [kind |-> "json", data |-> v]

NoRequest == [endpoint |-> "none"]
NoResponse == [kind |-> "none"]

\* What a call does: the request it issued (NoRequest: none) and how it ended.
Returned(result, request) == [outcome |-> "returned", result |-> result, request |-> request]
Raised(request) == [outcome |-> "raised", result |-> None, request |-> request]

----------------------------------------------------------------------------
(* The bodies of the two lookups, below the lru_cache wrapper.  args is    *)
(* the positional argument tuple after self.                               *)

\* VehicleParams setting modelYear unconditionally.
VehicleParams_AlwaysYear(normalized_make, normalized_model, model_year) ==
    [k \in {"make", "model", "modelYear"} |->
        CASE k = "make" -> normalized_make
          [] k = "model" -> normalized_model
          [] k = "modelYear" -> Str(str(model_year))]

\* params of get_recalls_for_vehicle: modelYear only under `if model_year:`.
VehicleParams(normalized_make, normalized_model, model_year) ==
    IF Truthy(model_year)
    THEN [k \in {"make", "model", "modelYear"} |->
            CASE k = "make" -> normalized_make
              [] k = "model" -> normalized_model
              [] k = "modelYear" -> Str(str(model_year))]
    ELSE [k \in {"make", "model"} |->
            IF k = "make" THEN normalized_make ELSE normalized_model]

\* data.get("results") or data.get("Results") or []
VehicleResults(data) == Or(Or(Get(data, "results"), Get(data, "Results")), List(<<>>))

\* VehicleLoop with each record put at the front of recalls instead of appended.
VehicleLoop_Prepend(results, request) ==
    IF results.t # "list" THEN Raised(request)
    ELSE IF \E i \in 1..Len(results.v) : results.v[i].t # "dict" THEN Raised(request)
    ELSE Returned(List([i \in 1..Len(results.v) |->
                          VehicleRecord(results.v[Len(results.v) + 1 - i])]), request)

\* The for loop over results: a results value that is not a list either cannot be
\* iterated or yields items without .get; an entry that is not a dict has no .get.
VehicleLoop(results, request) ==
    IF results.t # "list" THEN Raised(request)
    ELSE IF \E i \in 1..Len(results.v) : results.v[i].t # "dict" THEN Raised(request)
    ELSE Returned(List([i \in 1..Len(results.v) |-> VehicleRecord(results.v[i])]), request)

\* From `results = ...` to `return recalls`; data.get needs data to be a dict.
VehicleParse(data, request) ==
    IF data.t # "dict" THEN Raised(request)
    ELSE VehicleLoop(VehicleResults(data), request)

\* VehicleFetch without the except clause: the failure propagates.
VehicleFetch_Uncaught(request, response) ==
    IF response.kind # "json" THEN Raised(request)
    ELSE VehicleParse(response.data, request)

\* The try block and what follows it: a failed request or an undecodable body is
\* caught and gives [].
VehicleFetch(request, response) ==
    IF response.kind # "json" THEN Returned(List(<<>>), request)
    ELSE VehicleParse(response.data, request)

\* get_recalls_for_vehicle testing the raw make and model instead of the cleaned ones.
get_recalls_for_vehicle_body_RawCheck(args, response) ==
    LET make == args[1]
        model == args[2]
        model_year == IF Len(args) >= 3 THEN args[3] ELSE None
    IN  IF ~Truthy(make) \/ ~Truthy(model)
        THEN Returned(List(<<>>), NoRequest)
        ELSE VehicleFetch([endpoint |-> "recallsByVehicle",
                           params |-> VehicleParams(_clean_value(make), _clean_value(model),
                                                    model_year)],
                          response)

get_recalls_for_vehicle_body(args, response) ==
    LET make == args[1]
        model == args[2]
        model_year == IF Len(args) >= 3 THEN args[3] ELSE None
        normalized_make == _clean_value(make)
        normalized_model == _clean_value(model)
    IN  IF ~Truthy(normalized_make) \/ ~Truthy(normalized_model)
        THEN Returned(List(<<>>), NoRequest)
        ELSE VehicleFetch([endpoint |-> "recallsByVehicle",
                           params |-> VehicleParams(normalized_make, normalized_model,
                                                    model_year)],
                          response)

\* data.get("results") or data.get("Results") or []
CampaignResults(data) == Or(Or(Get(data, "results"), Get(data, "Results")), List(<<>>))

\* CampaignFirst reading results[-1] instead of results[0].
CampaignFirst_Last(results, request) ==
    IF ~Truthy(results) THEN Returned(None, request)
    ELSE IF results.t # "list" THEN Raised(request)
    ELSE IF results.v[Len(results.v)].t # "dict" THEN Raised(request)
    ELSE Returned(CampaignRecord(results.v[Len(results.v)]), request)

\* `if results and len(results) > 0: entry = results[0]; return RecallRecord(...)`
CampaignFirst(results, request) ==
    IF ~Truthy(results) THEN Returned(None, request)
    ELSE IF results.t # "list" THEN Raised(request)
    ELSE IF results.v[1].t # "dict" THEN Raised(request)
    ELSE Returned(CampaignRecord(results.v[1]), request)

\* From `results = ...` to the end; data.get needs data to be a dict.
CampaignParse(data, request) ==
    IF data.t # "dict" THEN Raised(request)
    ELSE CampaignFirst(CampaignResults(data), request)

\* The try block and what follows it: a failed request or an undecodable body is
\* caught and gives None.
CampaignFetch(request, response) ==
    IF response.kind # "json" THEN Returned(None, request)
    ELSE CampaignParse(response.data, request)

get_recall_by_campaign_number_body(args, response) ==
    LET campaign_number == args[1] IN
    IF ~Truthy(campaign_number) THEN Returned(None, NoRequest)
    ELSE CampaignFetch([endpoint |-> "campaignNumber",
                        params |-> [k \in {"campaignNumber"} |-> campaign_number]],
                       response)

----------------------------------------------------------------------------
(* functools.lru_cache(maxsize): keys in use order, least recently used    *)
(* first.  The key is the whole positional argument tuple, self included.  *)

\* Capacity of each cache in the model (the code's is 128).
maxsize == 2

CacheIndex(cache, key) ==
    IF \E i \in 1..Len(cache) : cache[i].key = key
    THEN CHOOSE i \in 1..Len(cache) : cache[i].key = key
    ELSE 0

\* A hit makes the entry the most recently used one.
CacheTouch(cache, i) ==
    SubSeq(cache, 1, i - 1) \o SubSeq(cache, i + 1, Len(cache)) \o <<cache[i]>>

\* CacheInsert that stores no empty result ([] or None).
CacheInsert_SkipEmpty(cache, key, value) ==
    IF value \in {None, List(<<>>)} THEN cache
    ELSE Append(IF Len(cache) >= maxsize THEN Tail(cache) ELSE cache,
                [key |-> key, value |-> value])

\* A miss stores the result; a full cache drops its least recently used entry.
CacheInsert(cache, key, value) ==
    Append(IF Len(cache) >= maxsize THEN Tail(cache) ELSE cache,
           [key |-> key, value |-> value])

NoFetch == [op |-> "none"]

\* The history variable after a call that missed the cache.
FirstFetchAfter(op, key, response, r) ==
    IF /\ first_fetch = NoFetch
       /\ r.request # NoRequest
       /\ response.kind = "json"
       /\ r.outcome = "returned"
    THEN [op |-> op, key |-> key, result |-> r.result]
    ELSE first_fetch

CallRecord(op, self, args, response, r) ==
    [ op |-> op, self |-> self, args |-> args,
      response |-> IF r.request = NoRequest THEN NoResponse ELSE response,
      request |-> r.request, outcome |-> r.outcome, result |-> r.result ]

----------------------------------------------------------------------------
(* Operations *)

\* VehicleKey made from the cleaned make and model instead of the arguments as given.
VehicleKey_Normalized(self, args) ==
    <<self, _clean_value(args[1]), _clean_value(args[2])>> \o SubSeq(args, 3, Len(args))

\* The key lru_cache makes for a call: the positional arguments as given, self first.
VehicleKey(self, args) == <<self>> \o args

get_recalls_for_vehicle(self, args, response) ==
    LET key == VehicleKey(self, args)
        i == CacheIndex(vehicle_cache, key)
        r == IF i # 0 THEN Returned(vehicle_cache[i].value, NoRequest)
                      ELSE get_recalls_for_vehicle_body(args, response)
    IN  /\ vehicle_cache' =
              IF i # 0 THEN CacheTouch(vehicle_cache, i)
              ELSE IF r.outcome = "returned" THEN CacheInsert(vehicle_cache, key, r.result)
              ELSE vehicle_cache
        /\ call' = CallRecord("get_recalls_for_vehicle", self, args, response, r)
        /\ first_fetch' = IF i # 0 THEN first_fetch
                          ELSE FirstFetchAfter("get_recalls_for_vehicle", key, response, r)
        /\ UNCHANGED <<campaign_cache, input>>

get_recall_by_campaign_number(self, args, response) ==
    LET key == <<self>> \o args
        i == CacheIndex(campaign_cache, key)
        r == IF i # 0 THEN Returned(campaign_cache[i].value, NoRequest)
                      ELSE get_recall_by_campaign_number_body(args, response)
    IN  /\ campaign_cache' =
              IF i # 0 THEN CacheTouch(campaign_cache, i)
              ELSE IF r.outcome = "returned" THEN CacheInsert(campaign_cache, key, r.result)
              ELSE campaign_cache
        /\ call' = CallRecord("get_recall_by_campaign_number", self, args, response, r)
        /\ first_fetch' = IF i # 0 THEN first_fetch
                          ELSE FirstFetchAfter("get_recall_by_campaign_number", key, response, r)
        /\ UNCHANGED <<vehicle_cache, input>>

\* clear_cache without its second line: the campaign cache is left as it is.
clear_cache_VehicleOnly(self) ==
    /\ vehicle_cache' = <<>>
    /\ campaign_cache' = campaign_cache
    /\ call' = CallRecord("clear_cache", self, <<>>, NoResponse, Returned(None, NoRequest))
    /\ first_fetch' = NoFetch
    /\ UNCHANGED input

\* cache_clear() of the two wrappers: each empties its whole cache.
clear_cache(self) ==
    /\ vehicle_cache' = <<>>
    /\ campaign_cache' = <<>>
    /\ call' = CallRecord("clear_cache", self, <<>>, NoResponse, Returned(None, NoRequest))
    /\ first_fetch' = NoFetch
    /\ UNCHANGED input

\* A direct call of the static method _clean_value.
clean_value_call(value) ==
    /\ call' = CallRecord("_clean_value", "static", <<value>>, NoResponse,
                          Returned(_clean_value(value), NoRequest))
    /\ UNCHANGED <<vehicle_cache, campaign_cache, first_fetch, input>>

\* A direct call of the static method _parse_bool.
parse_bool_call(value) ==
    /\ call' = CallRecord("_parse_bool", "static", <<value>>, NoResponse,
                          Returned(_parse_bool(value), NoRequest))
    /\ UNCHANGED <<vehicle_cache, campaign_cache, first_fetch, input>>

----------------------------------------------------------------------------
(* The post-processing helpers.  recalls is a Python list of RecallRecord,  *)
(* the grouping is a Python dict, which keeps its keys in insertion order:  *)
(* a sequence of [key, value] pairs.                                        *)

\* is_critical_safety looking at park_it alone.
is_critical_safety_ParkItOnly(recall) == recall.park_it = Bool(TRUE)

\* RecallRecord.is_critical_safety: self.park_it == True or self.park_outside == True
is_critical_safety(recall) ==
    recall.park_it = Bool(TRUE) \/ recall.park_outside = Bool(TRUE)

\* [recall for recall in recalls if recall.is_critical_safety()]
filter_critical_recalls_result(recalls) ==
    List(SelectSeq(recalls.v, is_critical_safety))

\* Python `sub in s` for two str.
Contains(s, sub) ==
    \E k \in 0..(Len(s) - Len(sub)) : SubSeq(s, k + 1, k + Len(sub)) = sub

\* ComponentMatches comparing the component as it is spelled, without .lower().
ComponentMatches_ComponentAsSpelled(recall, keyword_lower) ==
    Truthy(recall.component) /\ Contains(recall.component.v, keyword_lower)

\* recall.component and keyword_lower in recall.component.lower()
ComponentMatches(recall, keyword_lower) ==
    Truthy(recall.component) /\ Contains(lower(recall.component.v), keyword_lower)

filter_by_component_result(recalls, component_keyword) ==
    IF ~Truthy(component_keyword) THEN recalls
    ELSE LET keyword_lower == lower(component_keyword.v)
             Matches(recall) == ComponentMatches(recall, keyword_lower)
         IN  List(SelectSeq(recalls.v, Matches))

UNKNOWN == <<"U","n","k","n","o","w","n">>

OrderedDict(pairs) == [t |-> "odict", v |-> pairs]

\* Position of key in the grouping, 0 when it is not a key.
GroupIndex(grouped, year) ==
    IF \E i \in 1..Len(grouped) : grouped[i].key = year
    THEN CHOOSE i \in 1..Len(grouped) : grouped[i].key = year
    ELSE 0

\* GroupStep putting a new year in front of the keys instead of after them.
GroupStep_NewKeyFirst(grouped, recall) ==
    LET year == Or(recall.model_year, Str(UNKNOWN))
        opened == IF GroupIndex(grouped, year) = 0
                  THEN <<[key |-> year, value |-> <<>>]>> \o grouped
                  ELSE grouped
        i == GroupIndex(opened, year)
    IN  [opened EXCEPT ![i].value = Append(@, recall)]

\* One turn of the loop: year = recall.model_year or "Unknown"; a year not yet in
\* grouped gets an empty list; the record is appended to the list of its year.
GroupStep(grouped, recall) ==
    LET year == Or(recall.model_year, Str(UNKNOWN))
        opened == IF GroupIndex(grouped, year) = 0
                  THEN Append(grouped, [key |-> year, value |-> <<>>])
                  ELSE grouped
        i == GroupIndex(opened, year)
    IN  [opened EXCEPT ![i].value = Append(@, recall)]

RECURSIVE GroupLoop(_, _)
GroupLoop(grouped, recalls) ==
    IF recalls = <<>> THEN grouped
    ELSE GroupLoop(GroupStep(grouped, Head(recalls)), Tail(recalls))

group_by_year_result(recalls) == OrderedDict(GroupLoop(<<>>, recalls.v))

\* The three helpers as calls: none of them touches a cache, issues a request or
\* assigns to the list it is given.
filter_critical_recalls(self, recalls) ==
    /\ call' = CallRecord("filter_critical_recalls", self, <<recalls>>, NoResponse,
                          Returned(filter_critical_recalls_result(recalls), NoRequest))
    /\ UNCHANGED <<vehicle_cache, campaign_cache, first_fetch, input>>

filter_by_component(self, recalls, component_keyword) ==
    /\ call' = CallRecord("filter_by_component", self, <<recalls, component_keyword>>,
                          NoResponse,
                          Returned(filter_by_component_result(recalls, component_keyword),
                                   NoRequest))
    /\ UNCHANGED <<vehicle_cache, campaign_cache, first_fetch, input>>

group_by_year(self, recalls) ==
    /\ call' = CallRecord("group_by_year", self, <<recalls>>, NoResponse,
                          Returned(group_by_year_result(recalls), NoRequest))
    /\ UNCHANGED <<vehicle_cache, campaign_cache, first_fetch, input>>

\* The state after NHTSARecallLookup(): nothing cached, nothing called.
Constructed ==
    /\ vehicle_cache = <<>>
    /\ campaign_cache = <<>>
    /\ call = CallRecord("init", "static", <<>>, NoResponse, Returned(None, NoRequest))
    /\ first_fetch = NoFetch

----------------------------------------------------------------------------
(* Inputs: argument strings, upstream entries and payloads *)

HONDA == <<"H","o","n","d","a">>
HONDA_PADDED == <<" ","H","o","n","d","a"," ">>
HONDA_UPPER == <<"H","O","N","D","A">>
CRV == <<"C","R","-","V">>
CRV_PADDED == <<"C","R","-","V","\t">>
Y2019 == <<"2","0","1","9">>
BLANK == <<" "," ">>
NULL_WORD == <<"n","u","l","l">>
NONE_WORD == <<" ","N","o","n","e">>
NOT_APPLICABLE == <<"N","o","t"," ","A","p","p","l","i","c","a","b","l","e">>
C19V == <<"1","9","V","1">>
C19V_PADDED == <<" ","1","9","V","1">>
C20V == <<"2","0","V","2">>
FUEL == <<"F","U","E","L">>

\* A dict from a set of keys.
DictOf(keys, f) == Dict([k \in keys |-> f[k]])

Entry1 ==
    Dict([k \in {"NHTSACampaignNumber", "parkIt", "parkOutSide", "overTheAirUpdate",
                 "Component", "ModelYear", "Make", "Count"} |->
            CASE k = "NHTSACampaignNumber" -> Str(C19V)
              [] k = "parkIt" -> Bool(FALSE)
              [] k = "parkOutSide" -> Bool(TRUE)
              [] k = "overTheAirUpdate" -> Bool(FALSE)
              [] k = "Component" -> Str(FUEL)
              [] k = "ModelYear" -> Str(Y2019)
              [] k = "Make" -> Str(HONDA_UPPER)
              [] k = "Count" -> Num(2)])

Entry2 ==
    Dict([k \in {"nhtsaCampaignNumber", "parkOutsideYn", "overTheAirUpdateYn",
                 "Component", "modelYear"} |->
            CASE k = "nhtsaCampaignNumber" -> Str(C20V)
              [] k = "parkOutsideYn" -> Str(<<"N">>)
              [] k = "overTheAirUpdateYn" -> Str(<<"Y">>)
              [] k = "Component" -> Str(NULL_WORD)
              [] k = "modelYear" -> Num(2019)])

\* {"results": v}, {"Results": v}, {"results": v, "Results": w}
WithResults(v) == Dict([k \in {"results"} |-> v])
WithResultsUpper(v) == Dict([k \in {"Results"} |-> v])
WithBoth(v, w) == Dict([k \in {"results", "Results"} |-> IF k = "results" THEN v ELSE w])

\* Payloads of the expected shape: an object whose result list holds mappings.
WellFormedPayloads ==
    { WithResults(List(<<>>)),
      WithResults(List(<<Entry1>>)),
      WithResults(List(<<Entry1, Entry2>>)),
      WithResults(List(<<Entry2, Entry1>>)),
      WithResults(List(<<Entry1, Entry1>>)),
      WithResults(List(<<Entry2, Entry1, Entry2>>)),
      WithResultsUpper(List(<<Entry2>>)),
      WithResultsUpper(List(<<>>)),
      WithBoth(List(<<Entry1>>), List(<<Entry2>>)),
      WithBoth(List(<<>>), List(<<Entry2>>)),
      Dict([k \in {"Count"} |-> Num(0)]),
      Dict(EmptyMap) }

\* Valid JSON of another shape: the top-level value is no object, the results value
\* is no list, or an entry is no mapping.
MisshapenPayloads ==
    { List(<<>>), List(<<Entry1>>), Num(5), Num(0), Str(C19V), None, Bool(TRUE),
      WithResults(Str(C19V)),
      WithResults(Num(5)),
      WithResults(Bool(TRUE)),
      WithResults(Entry1),
      WithResults(Str(<<>>)),
      WithResults(Num(0)),
      WithResults(None),
      WithResults(Dict(EmptyMap)),
      WithResultsUpper(Str(C19V)),
      WithBoth(Num(0), List(<<Entry1>>)),
      WithResults(List(<<Num(1)>>)),
      WithResults(List(<<None>>)),
      WithResults(List(<<Entry1, Str(C19V)>>)),
      WithResults(List(<<List(<<>>), Entry1>>)) }

Payloads == WellFormedPayloads \cup MisshapenPayloads

Responses == {TransportError, NotJson} \cup {Json(d) : d \in Payloads}

----------------------------------------------------------------------------
(* Spec: one client, one vehicle and one campaign query (with and without  *)
(* a year), every kind of upstream answer.                                 *)

VehicleCalls == { <<Str(HONDA), Str(CRV)>>, <<Str(HONDA), Str(CRV), Str(Y2019)>> }
CampaignCalls == { <<Str(C19V_PADDED)>> }

Init == Constructed /\ input = None

Next ==
    \/ \E a \in VehicleCalls, r \in Responses : get_recalls_for_vehicle("lookup", a, r)
    \/ \E a \in CampaignCalls, r \in Responses : get_recall_by_campaign_number("lookup", a, r)
    \/ clear_cache("lookup")

Spec == Init /\ [][Next]_vars

----------------------------------------------------------------------------
(* SpecArgs: one client queried with one argument tuple, drawn by Init     *)
(* from every kind of argument, and an upstream that answers or fails.     *)

NULL_UPPER_PADDED == <<"\t","N","U","L","L","\n">>

ArgMakes ==
    { None, Str(<<>>), Str(BLANK), Str(NULL_WORD), Str(NULL_UPPER_PADDED), Str(NONE_WORD),
      Str(NOT_APPLICABLE), Str(HONDA), Str(HONDA_PADDED) }

ArgModels == { None, Str(<<>>), Str(NOT_APPLICABLE), Str(CRV), Str(CRV_PADDED) }

ArgYears == { None, Str(<<>>), Str(BLANK), Str(Y2019), Num(2019), Num(0) }

\* Calls with two positional arguments (model_year left to its default) and with three.
ArgVehicleCalls ==
    { <<mk, md>> : mk \in ArgMakes, md \in ArgModels }
        \cup { <<mk, md, y>> : mk \in ArgMakes, md \in ArgModels, y \in ArgYears }

ArgCampaignCalls ==
    { <<Str(<<>>)>>, <<None>>, <<Str(C19V)>>, <<Str(C19V_PADDED)>>, <<Str(BLANK)>> }

ArgResponses == { TransportError, NotJson, Json(WithResults(List(<<Entry1>>))) }

InitArgs == Constructed /\ input \in ArgVehicleCalls \cup ArgCampaignCalls

NextArgs ==
    \/ /\ Len(input) >= 2
       /\ \E r \in ArgResponses : get_recalls_for_vehicle("lookup", input, r)
    \/ /\ Len(input) = 1
       /\ \E r \in ArgResponses : get_recall_by_campaign_number("lookup", input, r)
    \/ clear_cache("lookup")

SpecArgs == InitArgs /\ [][NextArgs]_vars

----------------------------------------------------------------------------
(* SpecCache: one client, more distinct queries than a cache holds, an     *)
(* upstream that answers or fails.                                         *)

CacheVehicleCalls ==
    { <<Str(HONDA), Str(CRV)>>,
      <<Str(HONDA_PADDED), Str(CRV)>>,
      <<Str(HONDA), Str(CRV), Str(Y2019)>> }

CacheCampaignCalls == { <<Str(C19V)>>, <<Str(C19V_PADDED)>>, <<Str(C20V)>> }

CacheResponses == { TransportError, Json(WithResults(List(<<Entry1, Entry2>>))) }

NextCache ==
    \/ \E a \in CacheVehicleCalls, r \in CacheResponses :
          get_recalls_for_vehicle("lookup", a, r)
    \/ \E a \in CacheCampaignCalls, r \in CacheResponses :
          get_recall_by_campaign_number("lookup", a, r)
    \/ clear_cache("lookup")

SpecCache == Init /\ [][NextCache]_vars

----------------------------------------------------------------------------
(* SpecNorm: one value or one upstream entry, drawn by Init; the value is  *)
(* given to _clean_value and _parse_bool, the entry is what the upstream   *)
(* answers to a vehicle and to a campaign lookup.                          *)

\* Longest string of the exhaustive part of the value pool.
MaxStrLen == 3

Alphabet == {" ", "\t", "y", "Y", "n", "t", "0", "1", "x"}

SmallStrings == UNION { [1..n -> Alphabet] : n \in 0..MaxStrLen }

WordStrings ==
    { <<"y","e","s">>, <<"Y","E","S">>, <<" ","Y","e","s","\n">>, <<"n","o">>, <<"N","o"," ">>,
      <<"t","r","u","e">>, <<"\t","T","r","u","e">>, <<"f","a","l","s","e">>,
      <<"F","A","L","S","E">>, <<"f">>, <<"F"," ">>, <<"N">>, <<"T">>,
      <<"u","n","k","n","o","w","n">>, <<"o","n">>, <<"y","e","s","!">>, <<"y"," ","e","s">>,
      NULL_WORD, NULL_UPPER_PADDED, NONE_WORD, <<"n","o","n","e">>, NOT_APPLICABLE,
      <<"n","o","t"," ","a","p","p","l","i","c","a","b","l","e">>,
      <<"n","o","t"," "," ","a","p","p","l","i","c","a","b","l","e">>,
      <<"n","u","l","l","s">>, <<"n","u"," ","l","l">>,
      <<"T","e","s","t">>, <<" "," ","T","e","s","t"," "," ">>, <<"a"," ","b">>,
      HONDA, HONDA_PADDED, Y2019 }

NormValues ==
    {None, Bool(TRUE), Bool(FALSE), List(<<>>), Dict(EmptyMap)}
        \cup { Num(n) : n \in {-1, 0, 1, 2, 10, 2019} }
        \cup { Str(s) : s \in SmallStrings \cup WordStrings }

\* The keys the two lookups read under more than one spelling, in reading order.
AliasGroups ==
    { <<"NHTSACampaignNumber", "nhtsaCampaignNumber">>,
      <<"ReportReceivedDate", "reportReceivedDate">>,
      <<"ModelYear", "modelYear">>,
      <<"Make", "make">>,
      <<"Model", "model">>,
      <<"mfrRecallNumber", "MfrRecallNumber">>,
      <<"overTheAirUpdate", "overTheAirUpdateYn">>,
      <<"parkOutSide", "parkOutside", "parkOutsideYn">> }

\* Marks a key the entry does not have.
Absent == [t |-> "absent"]

AliasValues ==
    { Absent, None, Bool(FALSE), Bool(TRUE), Num(0), Num(1), Str(<<>>), Str(<<"Y">>),
      Str(<<" ","N">>), Str(NULL_WORD), Str(HONDA_PADDED) }

KeysOf(names) == { names[i] : i \in 1..Len(names) }

\* The entries that hold some of the keys of one alias group, with any of the values.
AliasEntries ==
    UNION { { Dict([k \in {n \in KeysOf(g) : f[n] # Absent} |-> f[k]]) :
                f \in [KeysOf(g) -> AliasValues] } : g \in AliasGroups }

FieldValues ==
    {None, Bool(TRUE), Bool(FALSE), Num(0), Num(1), Num(2019), List(<<>>)}
        \cup { Str(s) : s \in WordStrings \cup {<<>>, BLANK} }

\* The entries that hold one key read under a single spelling.
PlainEntries ==
    { Dict([k \in {key} |-> v]) :
        key \in {"Manufacturer", "Component", "parkIt", "Unmapped"}, v \in FieldValues }

NormEntries == AliasEntries \cup PlainEntries \cup {Entry1, Entry2}

InitNorm == Constructed /\ input \in NormValues \cup NormEntries

NextNorm ==
    \/ input \in NormValues /\ clean_value_call(input)
    \/ parse_bool_call(input)
    \/ /\ input \in NormEntries
       /\ get_recalls_for_vehicle("lookup", <<Str(HONDA), Str(CRV)>>,
                                  Json(WithResults(List(<<input>>))))
    \/ /\ input \in NormEntries
       /\ get_recall_by_campaign_number("lookup", <<Str(C19V)>>,
                                        Json(WithResultsUpper(List(<<input>>))))

SpecNorm == InitNorm /\ [][NextNorm]_vars

----------------------------------------------------------------------------
(* SpecHelpers: a list of records as the vehicle lookup builds them, drawn  *)
(* by Init, given to the three helpers.                                     *)

\* Longest list of records given to a helper.
MaxRecords == 3

FUEL_PUMP == <<"F","u","e","l"," ","P","u","m","p">>
PUMP == <<"p","u","m","p">>
Y2020 == <<"2","0","2","0">>

\* The upstream entry with the four keys the helpers depend on; a value of Absent
\* leaves the key out.
HelperEntry(parkIt, parkOutSide, component, year) ==
    LET f == [k \in {"parkIt", "parkOutSide", "Component", "ModelYear"} |->
                 CASE k = "parkIt" -> parkIt
                   [] k = "parkOutSide" -> parkOutSide
                   [] k = "Component" -> component
                   [] k = "ModelYear" -> year]
    IN  Dict([k \in {n \in DOMAIN f : f[n] # Absent} |-> f[k]])

\* Every pair of flag values, spread over components and years.
HelperEntries ==
    { HelperEntry(Bool(TRUE),  Bool(TRUE),  Str(FUEL),      Str(Y2019)),
      HelperEntry(Bool(TRUE),  Bool(FALSE), Str(FUEL_PUMP), Str(Y2020)),
      HelperEntry(Bool(TRUE),  Absent,      Absent,         Absent),
      HelperEntry(Bool(FALSE), Bool(TRUE),  Str(PUMP),      Str(UNKNOWN)),
      HelperEntry(Bool(FALSE), Bool(FALSE), Str(FUEL),      Str(Y2020)),
      HelperEntry(Bool(FALSE), Absent,      Str(NULL_WORD), Num(2019)),
      HelperEntry(Absent,      Bool(TRUE),  Absent,         Str(Y2019)),
      HelperEntry(Absent,      Bool(FALSE), Str(FUEL_PUMP), Str(NULL_WORD)),
      HelperEntry(Absent,      Absent,      Str(PUMP),      Str(BLANK)),
      HelperEntry(Str(<<"n">>), Str(<<"x">>), Str(FUEL_PUMP), Str(Y2019)) }

HelperRecords == { VehicleRecord(e) : e \in HelperEntries }

RecordLists == { List(xs) : xs \in UNION { [1..n -> HelperRecords] : n \in 0..MaxRecords } }

Keywords ==
    { None, Str(<<>>), Str(FUEL), Str(<<"f","u","e","l">>), Str(<<"P","U","M","P">>),
      Str(<<"l"," ","p">>), Str(<<" ">>), Str(<<"B","R","A","K","E">>), Str(FUEL_PUMP) }

InitHelpers == Constructed /\ input \in RecordLists

NextHelpers ==
    \/ filter_critical_recalls("lookup", input)
    \/ \E k \in Keywords : filter_by_component("lookup", input, k)
    \/ group_by_year("lookup", input)

SpecHelpers == InitHelpers /\ [][NextHelpers]_vars

----------------------------------------------------------------------------
(* SpecInstances: two clients.  lru_cache wraps the function in the class   *)
(* body, so the two caches belong to the class and both clients use them.   *)

Instances == {"A", "B"}

InstanceVehicleCalls == { <<Str(HONDA), Str(CRV)>>, <<Str(HONDA), Str(CRV), Str(Y2019)>> }

InstanceCampaignCalls == { <<Str(C19V)>> }

InstanceResponses == { TransportError, Json(WithResults(List(<<Entry1>>))) }

NextInstances ==
    \/ \E self \in Instances, a \in InstanceVehicleCalls, r \in InstanceResponses :
          get_recalls_for_vehicle(self, a, r)
    \/ \E self \in Instances, a \in InstanceCampaignCalls, r \in InstanceResponses :
          get_recall_by_campaign_number(self, a, r)
    \/ \E self \in Instances : clear_cache(self)

SpecInstances == Init /\ [][NextInstances]_vars

----------------------------------------------------------------------------
(* Properties of one lookup, under Spec *)

Lookups == {"get_recalls_for_vehicle", "get_recall_by_campaign_number"}

\* The empty sequence of the vehicle lookup, the not-found of the campaign lookup.
EmptyResult(op) == IF op = "get_recalls_for_vehicle" THEN List(<<>>) ELSE None

(* C1: a lookup whose request failed (connection error, timeout, non-2xx) or whose *)
(* response body is not JSON does not raise: the vehicle lookup returns the empty  *)
(* sequence and the campaign lookup returns not-found.                             *)
C1_FailSoftOnTransportFailure ==
    (call.op \in Lookups /\ call.response.kind \in {"error", "nonjson"})
        => (call.outcome = "returned" /\ call.result = EmptyResult(call.op))

C1_Witness ==
    /\ call.op = "get_recalls_for_vehicle"
    /\ call.response = TransportError
    /\ call.outcome = "returned"
    /\ call.result = List(<<>>)

(* C4: a lookup whose response body is valid JSON of an unexpected shape (top-level *)
(* value no object, results value no list, an entry no mapping) does not raise and  *)
(* returns the empty sequence, respectively not-found.                              *)
C4_FailSoftOnUnexpectedShape ==
    (/\ call.op \in Lookups
     /\ call.response.kind = "json"
     /\ call.response.data \in MisshapenPayloads)
        => (call.outcome = "returned" /\ call.result = EmptyResult(call.op))

(* C8: a vehicle lookup that fetched a payload whose result list holds n entries    *)
(* returns exactly n records, the i-th built from the i-th entry and carrying that  *)
(* entry, whole and unmodified, as additional_fields.                               *)
C8_OneRecordPerEntryInOrder ==
    (/\ call.op = "get_recalls_for_vehicle"
     /\ call.response.kind = "json"
     /\ call.response.data \in WellFormedPayloads)
        => LET entries == VehicleResults(call.response.data).v IN
           /\ call.outcome = "returned"
           /\ call.result.t = "list"
           /\ Len(call.result.v) = Len(entries)
           /\ \A i \in 1..Len(entries) :
                 /\ call.result.v[i].additional_fields = entries[i]
                 /\ call.result.v[i] = VehicleRecord(entries[i])

C8_Witness ==
    /\ call.op = "get_recalls_for_vehicle"
    /\ call.response = Json(WithResults(List(<<Entry2, Entry1, Entry2>>)))
    /\ Len(call.result.v) = 3
    /\ call.result.v[1].nhtsa_campaign_number = Str(C20V)
    /\ call.result.v[2].additional_fields = Entry1

(* C10: a campaign lookup with a non-empty campaign_number queries the campaign     *)
(* endpoint with campaignNumber equal to the raw input; on a successful response it *)
(* returns the record of the first entry of the result list, whatever follows it,   *)
(* and not-found exactly when the result list is empty or missing.                  *)
C10_CampaignFirstEntry ==
    (call.op = "get_recall_by_campaign_number" /\ call.request # NoRequest)
        => /\ call.request.endpoint = "campaignNumber"
           /\ DOMAIN call.request.params = {"campaignNumber"}
           /\ call.request.params["campaignNumber"] = call.args[1]
           /\ (call.response.kind = "json" /\ call.response.data \in WellFormedPayloads)
                 => LET entries == CampaignResults(call.response.data).v IN
                    /\ call.outcome = "returned"
                    /\ (call.result = None) <=> (entries = <<>>)
                    /\ entries # <<>> => call.result = CampaignRecord(entries[1])

C10_Witness ==
    /\ call.op = "get_recall_by_campaign_number"
    /\ call.args = <<Str(C19V_PADDED)>>
    /\ call.response = Json(WithResults(List(<<Entry2, Entry1, Entry2>>)))
    /\ call.result = CampaignRecord(Entry2)

----------------------------------------------------------------------------
(* Properties of the arguments and the request, under SpecArgs.  Trimming   *)
(* and placeholders are stated here without strip() and lower().            *)

AllWhitespace(s) == \A i \in 1..Len(s) : s[i] \in Whitespace

\* c is d, or the capital of the small letter d.
FoldsTo(c, d) == c = d \/ \E i \in 1..Len(UPPER) : UPPER[i] = c /\ LOWER[i] = d

\* t is s without its leading and trailing whitespace.
IsTrimOf(t, s) ==
    /\ t = <<>> \/ (t[1] \notin Whitespace /\ t[Len(t)] \notin Whitespace)
    /\ \E i \in 0..Len(s) :
          /\ i + Len(t) <= Len(s)
          /\ SubSeq(s, i + 1, i + Len(t)) = t
          /\ AllWhitespace(SubSeq(s, 1, i))
          /\ AllWhitespace(SubSeq(s, i + Len(t) + 1, Len(s)))

PlaceholderWords ==
    { <<"n","u","l","l">>, <<"n","o","n","e">>,
      <<"n","o","t"," ","a","p","p","l","i","c","a","b","l","e">> }

\* t is "null", "none" or "not applicable" in some capitalisation.
IsPlaceholder(t) ==
    \E w \in PlaceholderWords : Len(t) = Len(w) /\ \A k \in 1..Len(w) : FoldsTo(t[k], w[k])

\* s is empty, whitespace only, or a placeholder with whitespace around it.
IsBlankOrPlaceholder(s) ==
    \/ AllWhitespace(s)
    \/ \E a \in 1..Len(s), b \in 1..Len(s) :
          IsTrimOf(SubSeq(s, a, b), s) /\ IsPlaceholder(SubSeq(s, a, b))

NormalizesToAbsent(v) == v = None \/ (v.t = "str" /\ IsBlankOrPlaceholder(v.v))

(* C3: input rejection performs no I/O.  A vehicle lookup whose make or model is   *)
(* absent, empty, whitespace only or a placeholder returns the empty sequence and  *)
(* issues no request; a campaign lookup whose campaign_number is empty or absent   *)
(* returns not-found and issues no request.                                        *)
C3_RejectionWithoutRequest ==
    /\ (/\ call.op = "get_recalls_for_vehicle"
        /\ NormalizesToAbsent(call.args[1]) \/ NormalizesToAbsent(call.args[2]))
          => (/\ call.outcome = "returned"
              /\ call.result = List(<<>>)
              /\ call.request = NoRequest)
    /\ (/\ call.op = "get_recall_by_campaign_number"
        /\ call.args[1] \in {None, Str(<<>>)})
          => (/\ call.outcome = "returned"
              /\ call.result = None
              /\ call.request = NoRequest)

C3_Witness ==
    /\ call.op = "get_recalls_for_vehicle"
    /\ call.args = <<Str(HONDA), Str(NOT_APPLICABLE), Str(Y2019)>>
    /\ call.request = NoRequest
    /\ call.result = List(<<>>)
    /\ vehicle_cache # <<>>

\* The model_year argument of a vehicle call, None when it was not passed.
YearOf(args) == IF Len(args) >= 3 THEN args[3] ELSE None

\* The request of a vehicle lookup, given when it carries modelYear.
VehicleRequestIs(hasYear) ==
    LET p == call.request.params
        year == YearOf(call.args)
    IN  /\ call.request.endpoint = "recallsByVehicle"
        /\ DOMAIN p = {"make", "model"} \cup (IF hasYear THEN {"modelYear"} ELSE {})
        /\ p["make"].t = "str" /\ IsTrimOf(p["make"].v, call.args[1].v)
        /\ p["model"].t = "str" /\ IsTrimOf(p["model"].v, call.args[2].v)
        /\ hasYear => p["modelYear"] = Str(str(year))

(* C9 as stated: the request of a vehicle lookup carries make and model trimmed,   *)
(* and carries modelYear, as the string form of model_year, if and only if         *)
(* model_year is present (was passed and is not None).                             *)
C9_YearIffPresent ==
    (call.op = "get_recalls_for_vehicle" /\ call.request # NoRequest)
        => VehicleRequestIs(YearOf(call.args) # None)

(* C9 amended: the request of a vehicle lookup carries make and model trimmed, and *)
(* carries modelYear, as the string form of model_year, if and only if model_year  *)
(* is truthy: passed and neither None, the empty string nor the number 0.          *)
C9_YearIffTruthy ==
    (call.op = "get_recalls_for_vehicle" /\ call.request # NoRequest)
        => VehicleRequestIs(YearOf(call.args) \notin {None, Str(<<>>), Num(0)})

C9_Witness ==
    /\ call.op = "get_recalls_for_vehicle"
    /\ call.args = <<Str(HONDA_PADDED), Str(CRV_PADDED), Str(Y2019)>>
    /\ call.request.params["make"] = Str(HONDA)
    /\ call.request.params["model"] = Str(CRV)
    /\ call.request.params["modelYear"] = Str(Y2019)

----------------------------------------------------------------------------
(* Properties of the memoisation, under SpecCache.  They are properties of *)
(* a step: call' is the call the step made, the unprimed caches are the    *)
(* caches it found.                                                        *)

\* The cache key of the call the step made.
KeyOfStep == <<call'.self>> \o call'.args

Cached(cache, key) == \E i \in 1..Len(cache) : cache[i].key = key

\* The call the step made is rejected for its arguments, before any request.
RejectedStep ==
    \/ /\ call'.op = "get_recalls_for_vehicle"
       /\ NormalizesToAbsent(call'.args[1]) \/ NormalizesToAbsent(call'.args[2])
    \/ /\ call'.op = "get_recall_by_campaign_number"
       /\ call'.args[1] \in {None, Str(<<>>)}

(* C2 as stated: after a lookup that fetched successfully, every later lookup with *)
(* identical arguments issues no request and returns the previously constructed    *)
(* result, for as long as clear_cache is not called.                               *)
C2_HitUntilClear ==
    [][ (/\ first_fetch # NoFetch
         /\ call'.op = first_fetch.op
         /\ KeyOfStep = first_fetch.key)
            => (call'.request = NoRequest /\ call'.result = first_fetch.result) ]_vars

\* A lookup of a key its cache holds issues no request and returns the stored result.
HitServedFromCache(op, cache) ==
    call'.op = op =>
        \A i \in 1..Len(cache) :
            cache[i].key = KeyOfStep
                => /\ call'.request = NoRequest
                   /\ call'.outcome = "returned"
                   /\ call'.result = cache[i].value

\* An entry leaves a cache only by clear_cache, or as the least recently used entry
\* of a full cache when a lookup stores a new key.
EntriesKept(op, before, after) ==
    call'.op # "clear_cache" =>
        \A i \in 1..Len(before) :
            \/ \E j \in 1..Len(after) : after[j] = before[i]
            \/ /\ i = 1
               /\ Len(before) = maxsize
               /\ call'.op = op
               /\ ~Cached(before, KeyOfStep)

\* A lookup of a key its cache does not hold issues a request, unless the arguments
\* are rejected.
MissFetches(op, cache) ==
    (call'.op = op /\ ~Cached(cache, KeyOfStep) /\ ~RejectedStep)
        => call'.request # NoRequest

(* C2 amended: a lookup whose key is in its cache issues no request and returns the *)
(* stored result; an entry stays cached until clear_cache is called or it is        *)
(* evicted as the least recently used entry of a full cache; clear_cache empties    *)
(* both caches, also when they are empty; a lookup whose key is not cached, such as *)
(* the next one after clear_cache, issues a request again.                          *)
C2_HitWhileCached ==
    [][ /\ HitServedFromCache("get_recalls_for_vehicle", vehicle_cache)
        /\ HitServedFromCache("get_recall_by_campaign_number", campaign_cache)
        /\ EntriesKept("get_recalls_for_vehicle", vehicle_cache, vehicle_cache')
        /\ EntriesKept("get_recall_by_campaign_number", campaign_cache, campaign_cache')
        /\ call'.op = "clear_cache"
              => (vehicle_cache' = <<>> /\ campaign_cache' = <<>>
                  /\ call'.outcome = "returned")
        /\ MissFetches("get_recalls_for_vehicle", vehicle_cache)
        /\ MissFetches("get_recall_by_campaign_number", campaign_cache) ]_vars

\* A vehicle lookup served from the cache after a successful fetch of the same key,
\* with the campaign cache full.
C2_Witness ==
    /\ call.op = "get_recalls_for_vehicle"
    /\ call.request = NoRequest
    /\ call.result.v # <<>>
    /\ first_fetch # NoFetch
    /\ first_fetch.op = "get_recalls_for_vehicle"
    /\ first_fetch.key = <<call.self>> \o call.args
    /\ Len(campaign_cache) = maxsize

----------------------------------------------------------------------------
(* Properties of the normalisation, under SpecNorm *)

\* The records a lookup returned: the items of the list, the one record, or none.
RecordsReturned ==
    IF call.op = "get_recalls_for_vehicle" /\ call.outcome = "returned"
    THEN { call.result.v[i] : i \in 1..Len(call.result.v) }
    ELSE IF /\ call.op = "get_recall_by_campaign_number"
            /\ call.outcome = "returned"
            /\ call.result # None
    THEN { call.result }
    ELSE {}

RECURSIVE FirstPresent(_, _)
\* The value under the first key of names that the entry has, None when it has none.
FirstPresent(entry, names) ==
    IF names = <<>> THEN None
    ELSE IF Head(names) \in DOMAIN entry.v THEN entry.v[Head(names)]
    ELSE FirstPresent(entry, Tail(names))

(* C5: in every record a lookup returns, each field read under an ordered alias    *)
(* list is the normalisation of the value under the first alias key present in the *)
(* entry, whatever that value is (false, 0 and "" included) and whatever later     *)
(* aliases hold; it is absent when no alias key is present.                        *)
C5_FirstPresentAliasWins ==
    \A r \in RecordsReturned :
        LET e == r.additional_fields IN
        /\ r.nhtsa_campaign_number =
              _clean_value(FirstPresent(e, <<"NHTSACampaignNumber", "nhtsaCampaignNumber">>))
        /\ r.report_received_date =
              _clean_value(FirstPresent(e, <<"ReportReceivedDate", "reportReceivedDate">>))
        /\ r.model_year = _clean_value(FirstPresent(e, <<"ModelYear", "modelYear">>))
        /\ r.make = _clean_value(FirstPresent(e, <<"Make", "make">>))
        /\ r.model = _clean_value(FirstPresent(e, <<"Model", "model">>))
        /\ r.mfr_recall_number =
              _clean_value(FirstPresent(e, <<"mfrRecallNumber", "MfrRecallNumber">>))
        /\ r.over_the_air_update =
              _parse_bool(FirstPresent(e, <<"overTheAirUpdate", "overTheAirUpdateYn">>))
        /\ r.park_outside =
              _parse_bool(FirstPresent(e, <<"parkOutSide", "parkOutside", "parkOutsideYn">>))

TrueWords == { <<"y">>, <<"y","e","s">>, <<"t","r","u","e">>, <<"t">>, <<"1">> }
FalseWords == { <<"n">>, <<"n","o">>, <<"f","a","l","s","e">>, <<"f">>, <<"0">> }

\* s is one of words in some capitalisation, with whitespace around it.
IsWord(s, words) ==
    \E a \in 1..Len(s), b \in 1..Len(s) :
        /\ IsTrimOf(SubSeq(s, a, b), s)
        /\ \E w \in words :
              Len(w) = b - a + 1 /\ \A k \in 1..Len(w) : FoldsTo(s[a + k - 1], w[k])

(* C6: _parse_bool returns for every input, and returns true exactly for literal    *)
(* true, the number 1 and the strings y, yes, true, t, 1; false exactly for literal *)
(* false, the number 0 and the strings n, no, false, f, 0 (strings compared without *)
(* case after trimming); unknown for every other input.                             *)
C6_ParseBoolTriState ==
    call.op = "_parse_bool" =>
        LET v == call.args[1]
            r == call.result
        IN  /\ call.outcome = "returned"
            /\ r \in {Bool(TRUE), Bool(FALSE), None}
            /\ (r = Bool(TRUE)) <=>
                  \/ v = Bool(TRUE)
                  \/ v = Num(1)
                  \/ v.t = "str" /\ IsWord(v.v, TrueWords)
            /\ (r = Bool(FALSE)) <=>
                  \/ v = Bool(FALSE)
                  \/ v = Num(0)
                  \/ v.t = "str" /\ IsWord(v.v, FalseWords)

C6_Witness ==
    /\ call.op = "_parse_bool"
    /\ call.args = << Str(<<" ","Y","e","s","\n">>) >>
    /\ call.result = Bool(TRUE)

StringFields ==
    { "manufacturer", "nhtsa_campaign_number", "nhtsa_action_number", "report_received_date",
      "component", "summary", "consequence", "remedy", "notes", "model_year", "make", "model",
      "mfr_recall_number" }

\* Absent, or a non-empty string without whitespace at either end that is no placeholder.
IsCleanField(f) ==
    \/ f = None
    \/ /\ f.t = "str"
       /\ f.v # <<>>
       /\ f.v[1] \notin Whitespace
       /\ f.v[Len(f.v)] \notin Whitespace
       /\ ~IsPlaceholder(f.v)

(* C7: every string field of every record a lookup returns is absent or a non-empty *)
(* string without leading or trailing whitespace that is not "null", "none" or      *)
(* "not applicable" in any capitalisation; _clean_value maps absent, empty,         *)
(* whitespace-only and placeholder inputs to absent and every other input to its    *)
(* trimmed string form.                                                             *)
C7_StringFieldsClean ==
    /\ \A r \in RecordsReturned : \A f \in StringFields : IsCleanField(r[f])
    /\ call.op = "_clean_value" =>
          LET v == call.args[1]
              r == call.result
          IN  /\ call.outcome = "returned"
              /\ IF v = None \/ IsBlankOrPlaceholder(str(v))
                 THEN r = None
                 ELSE r.t = "str" /\ IsTrimOf(r.v, str(v))

C7_Witness ==
    /\ call.op = "get_recalls_for_vehicle"
    /\ call.outcome = "returned"
    /\ Len(call.result.v) = 1
    /\ call.result.v[1].additional_fields = Dict([k \in {"make"} |-> Str(HONDA_PADDED)])
    /\ call.result.v[1].make = Str(HONDA)
    /\ call.result.v[1].model = None

----------------------------------------------------------------------------
(* Properties of the helpers, under SpecHelpers *)

\* The k-th smallest position of a set of positions.
NthOf(S, k) == CHOOSE i \in S : Cardinality({j \in S : j < i}) = k - 1

\* out holds the items of xs at the positions S, and no other, in the order of xs.
IsSubsequenceAt(out, xs, S) ==
    /\ Len(out) = Cardinality(S)
    /\ \A k \in 1..Len(out) : out[k] = xs[NthOf(S, k)]

\* The call is a helper call that returned a value without a request, and the list
\* it was given is still the list the caller built.
HelperReturned ==
    /\ call.outcome = "returned"
    /\ call.request = NoRequest
    /\ call.args[1] = input

CriticalAt(xs) ==
    { i \in 1..Len(xs) : xs[i].park_it = Bool(TRUE) \/ xs[i].park_outside = Bool(TRUE) }

(* C11: filter_critical returns exactly the records of its input whose park_it is   *)
(* true or whose park_outside is true (two flags that are each false or unknown      *)
(* exclude the record), in their original relative order, and leaves the input       *)
(* sequence unchanged.                                                               *)
C11_FilterCritical ==
    call.op = "filter_critical_recalls" =>
        /\ HelperReturned
        /\ call.result.t = "list"
        /\ IsSubsequenceAt(call.result.v, input.v, CriticalAt(input.v))

\* Three records, the middle one critical by park_outside alone, the others with
\* flags false or unknown: the middle one is the result.
C11_Witness ==
    /\ call.op = "filter_critical_recalls"
    /\ Len(input.v) = 3
    /\ input.v[1].park_it = Bool(FALSE) /\ input.v[1].park_outside = None
    /\ input.v[2].park_it = None /\ input.v[2].park_outside = Bool(TRUE)
    /\ input.v[3].park_it = None /\ input.v[3].park_outside = None
    /\ call.result = List(<<input.v[2]>>)

\* Two characters that are the same letter in either case, or the same character.
SameLetter(a, b) == a = b \/ FoldsTo(a, b) \/ FoldsTo(b, a)

ContainsIgnoringCase(s, kw) ==
    \E k \in 0..(Len(s) - Len(kw)) : \A i \in 1..Len(kw) : SameLetter(s[k + i], kw[i])

MatchingAt(xs, kw) ==
    { i \in 1..Len(xs) :
        xs[i].component # None /\ ContainsIgnoringCase(xs[i].component.v, kw) }

(* C12: filter_by_component with a non-empty keyword returns, in original order,    *)
(* exactly the records whose component is present and contains the keyword as a     *)
(* case-insensitive substring (an absent component never matches); with an absent   *)
(* or empty keyword it returns the whole input unchanged.                           *)
C12_FilterByComponent ==
    call.op = "filter_by_component" =>
        /\ HelperReturned
        /\ IF call.args[2] \in {None, Str(<<>>)}
           THEN call.result = input
           ELSE /\ call.result.t = "list"
                /\ IsSubsequenceAt(call.result.v, input.v,
                                   MatchingAt(input.v, call.args[2].v))

\* The keyword PUMP over components "Fuel Pump", absent and "pump": the first and
\* the third record are the result.
C12_Witness ==
    /\ call.op = "filter_by_component"
    /\ call.args[2] = Str(<<"P","U","M","P">>)
    /\ Len(input.v) = 3
    /\ input.v[1].component = Str(FUEL_PUMP)
    /\ input.v[2].component = None
    /\ input.v[3].component = Str(PUMP)
    /\ call.result = List(<<input.v[1], input.v[3]>>)

\* The key of the group of a record.
YearKey(r) == IF r.model_year = None THEN Str(UNKNOWN) ELSE r.model_year

\* The positions of the input that belong under key.
PositionsOf(xs, key) == { j \in 1..Len(xs) : YearKey(xs[j]) = key }

\* The smallest position of a non-empty set of positions.
FirstOf(S) == CHOOSE i \in S : \A j \in S : i <= j

(* C13: group_by_year partitions its input: every record is in exactly one group,   *)
(* the one keyed by its model_year, or by "Unknown" when model_year is absent; no    *)
(* group is empty; each group keeps the original relative order; the keys are in     *)
(* the order in which each year is first met in the input.                           *)
C13_GroupByYear ==
    call.op = "group_by_year" =>
        LET groups == call.result.v IN
        /\ HelperReturned
        /\ \A i, j \in 1..Len(groups) : groups[i].key = groups[j].key => i = j
        /\ \A j \in 1..Len(input.v) :
              \E i \in 1..Len(groups) : groups[i].key = YearKey(input.v[j])
        /\ \A i \in 1..Len(groups) :
              /\ groups[i].value # <<>>
              /\ IsSubsequenceAt(groups[i].value, input.v,
                                 PositionsOf(input.v, groups[i].key))
        /\ \A i, j \in 1..Len(groups) :
              i < j => FirstOf(PositionsOf(input.v, groups[i].key))
                          < FirstOf(PositionsOf(input.v, groups[j].key))

\* Years 2020, absent, 2020: the groups are "2020" with the first and third record,
\* then "Unknown" with the second.
C13_Witness ==
    /\ call.op = "group_by_year"
    /\ Len(input.v) = 3
    /\ input.v[1].model_year = Str(Y2020)
    /\ input.v[2].model_year = None
    /\ input.v[3].model_year = Str(Y2020)
    /\ input.v[1] # input.v[3]
    /\ call.result.v = << [key |-> Str(Y2020), value |-> <<input.v[1], input.v[3]>>],
                          [key |-> Str(UNKNOWN), value |-> <<input.v[2]>>] >>

----------------------------------------------------------------------------
(* Properties of the cache bound and of the eviction, under Spec.  A cache  *)
(* starts empty, so a statement about each step is a statement about every  *)
(* sequence of lookups.                                                     *)

\* The keys of a cache, least recently used first.
CachedKeys(cache) == [i \in 1..Len(cache) |-> cache[i].key]

\* The last n items of s.
LastN(s, n) == IF Len(s) <= n THEN s ELSE SubSeq(s, Len(s) - n + 1, Len(s))

\* The most recently used keys once key has been used: key is the most recent one,
\* the others keep their order, and only the most recent maxsize of them remain.
MostRecentAfter(cache, key) ==
    LET Other(k) == k # key
    IN  LastN(SelectSeq(CachedKeys(cache), Other) \o <<key>>, maxsize)

\* A lookup leaves its cache holding the most recently used keys: a hit counts as
\* a use, and the key dropped from a full cache is the least recently used one.
KeepsMostRecent(op, before, after) ==
    call'.op = op => CachedKeys(after) = MostRecentAfter(before, KeyOfStep)

(* C14: after any sequence of lookups each cache holds at most maxsize entries (128 *)
(* in the code); a lookup with a new key while the cache is full evicts the least   *)
(* recently used entry, a cache hit counting as a use; so the most recently used    *)
(* maxsize distinct keys are cached and are served without a request.               *)
C14_MostRecentKeysServed ==
    [][ /\ Len(vehicle_cache') <= maxsize
        /\ Len(campaign_cache') <= maxsize
        /\ KeepsMostRecent("get_recalls_for_vehicle", vehicle_cache, vehicle_cache')
        /\ KeepsMostRecent("get_recall_by_campaign_number", campaign_cache, campaign_cache')
        /\ HitServedFromCache("get_recalls_for_vehicle", vehicle_cache)
        /\ HitServedFromCache("get_recall_by_campaign_number", campaign_cache) ]_vars

----------------------------------------------------------------------------
(* Properties of two clients, under SpecInstances *)

\* The entries of a cache that were stored by lookups on the client self.
EntriesOf(cache, self) == SelectSeq(cache, LAMBDA e : e.key[1] = self)

\* A lookup served without a request, its arguments not being rejected, is served
\* from an entry stored by a lookup on the same client.
ServedFromOwnEntry(op, cache) ==
    (call'.op = op /\ call'.request = NoRequest /\ ~RejectedStep)
        => \E i \in 1..Len(cache) :
              /\ cache[i].key = KeyOfStep
              /\ cache[i].key[1] = call'.self

(* C15: the caches are scoped to one client: no operation on a client A (a lookup,  *)
(* an eviction its lookups cause, A.clear_cache) changes which later lookups of      *)
(* another client B are served from cache, that is, it leaves the entries of B as    *)
(* they are; and a lookup on B is never served from an entry stored by A.            *)
C15_CachesPerInstance ==
    [][ /\ \A other \in Instances \ {call'.self} :
              /\ EntriesOf(vehicle_cache', other) = EntriesOf(vehicle_cache, other)
              /\ EntriesOf(campaign_cache', other) = EntriesOf(campaign_cache, other)
        /\ ServedFromOwnEntry("get_recalls_for_vehicle", vehicle_cache)
        /\ ServedFromOwnEntry("get_recall_by_campaign_number", campaign_cache) ]_vars

----------------------------------------------------------------------------
(* Properties of the cache key and of memoised failures, under SpecCache *)

\* Two argument tuples of the vehicle lookup that are spelled differently and clean
\* to the same make and model, with the same year.
SameQuery(a, b) ==
    /\ a # b
    /\ _clean_value(a[1]) = _clean_value(b[1])
    /\ _clean_value(a[2]) = _clean_value(b[2])
    /\ YearOf(a) = YearOf(b)

(* C16: the vehicle cache is keyed by the arguments as supplied: a vehicle lookup   *)
(* whose arguments differ in case or surrounding whitespace from those of a cached   *)
(* lookup, while cleaning to the same make and model, does not use that entry: it    *)
(* issues its own request and gets an entry of its own.                              *)
C16_RawArgumentsAreTheKey ==
    [][ (/\ call'.op = "get_recalls_for_vehicle"
         /\ ~RejectedStep
         /\ ~Cached(vehicle_cache, KeyOfStep)
         /\ \E i \in 1..Len(vehicle_cache) :
               /\ vehicle_cache[i].key[1] = call'.self
               /\ SameQuery(Tail(vehicle_cache[i].key), call'.args))
            => /\ call'.request # NoRequest
               /\ call'.request.params["make"] = _clean_value(call'.args[1])
               /\ call'.outcome = "returned" => Cached(vehicle_cache', KeyOfStep) ]_vars

\* " Honda " looked up while "Honda" is cached: a request is issued, and the cache
\* then holds one entry for each spelling.
C16_Witness ==
    /\ call.op = "get_recalls_for_vehicle"
    /\ call.args = <<Str(HONDA_PADDED), Str(CRV)>>
    /\ call.request # NoRequest
    /\ call.request.params["make"] = Str(HONDA)
    /\ Cached(vehicle_cache, <<call.self, Str(HONDA), Str(CRV)>>)
    /\ Cached(vehicle_cache, <<call.self, Str(HONDA_PADDED), Str(CRV)>>)
    /\ vehicle_cache[Len(vehicle_cache)].key = <<call.self, Str(HONDA_PADDED), Str(CRV)>>

\* The step is a lookup whose request failed or whose answer could not be decoded.
FailedStep(op) ==
    call'.op = op /\ call'.response.kind \in {"error", "nonjson"}

\* A failed lookup returns the empty result and stores it under its key.
FailureStored(op, cache) ==
    FailedStep(op) =>
        /\ call'.outcome = "returned"
        /\ call'.result = EmptyResult(op)
        /\ \E i \in 1..Len(cache) :
              cache[i] = [key |-> KeyOfStep, value |-> EmptyResult(op)]

\* A lookup of a key stored with the empty result returns it without a request,
\* whatever the upstream would answer now.
EmptyServed(op, cache) ==
    call'.op = op =>
        \A i \in 1..Len(cache) :
            (cache[i].key = KeyOfStep /\ cache[i].value = EmptyResult(op))
                => /\ call'.request = NoRequest
                   /\ call'.result = EmptyResult(op)

\* An entry stored with the empty result stays until clear_cache is called or it is
\* evicted as the least recently used entry of a full cache.
EmptyKept(op, before, after) ==
    \A i \in 1..Len(before) :
        before[i].value = EmptyResult(op) =>
            \/ \E j \in 1..Len(after) : after[j] = before[i]
            \/ call'.op = "clear_cache"
            \/ /\ i = 1
               /\ Len(before) = maxsize
               /\ call'.op = op
               /\ ~Cached(before, KeyOfStep)

(* C18: a failed lookup is memoised like a successful one: after a lookup whose     *)
(* request failed and that returned empty / not-found, every later lookup with the  *)
(* same arguments returns that result without a new request, even when the upstream *)
(* has recovered, until clear_cache is called or the entry is evicted.              *)
C18_FailureMemoized ==
    [][ /\ FailureStored("get_recalls_for_vehicle", vehicle_cache')
        /\ FailureStored("get_recall_by_campaign_number", campaign_cache')
        /\ EmptyServed("get_recalls_for_vehicle", vehicle_cache)
        /\ EmptyServed("get_recall_by_campaign_number", campaign_cache)
        /\ EmptyKept("get_recalls_for_vehicle", vehicle_cache, vehicle_cache')
        /\ EmptyKept("get_recall_by_campaign_number", campaign_cache, campaign_cache') ]_vars

\* A campaign lookup of a well-formed number answered not-found from the cache: the
\* upstream answers this number with a record whenever it answers, so the entry was
\* stored by a failed lookup.
C18_Witness ==
    /\ call.op = "get_recall_by_campaign_number"
    /\ call.args = <<Str(C19V)>>
    /\ call.request = NoRequest
    /\ call.result = None
    /\ Len(campaign_cache) = maxsize
    /\ campaign_cache[maxsize] = [key |-> <<call.self, Str(C19V)>>, value |-> None]

----------------------------------------------------------------------------
(* Property of the result list, under Spec *)

\* A list of mappings.
IsEntryList(v) == v.t = "list" /\ \A i \in 1..Len(v.v) : v.v[i].t = "dict"

\* The value under the first of the keys results, Results that data has; the empty
\* list when it has neither.
FirstPresentList(data) ==
    IF "results" \in DOMAIN data.v THEN data.v["results"]
    ELSE IF "Results" \in DOMAIN data.v THEN data.v["Results"]
    ELSE List(<<>>)

(* C17: in both lookups the result list is read from the first of the keys results, *)
(* Results that the response object has: when results is present, even with an       *)
(* empty list, Results is not consulted; when neither is present the list is empty.  *)
C17_FirstPresentResultsKey ==
    (/\ call.op \in Lookups
     /\ call.response.kind = "json"
     /\ call.response.data.t = "dict"
     /\ IsEntryList(FirstPresentList(call.response.data)))
        => LET entries == FirstPresentList(call.response.data).v IN
           /\ call.outcome = "returned"
           /\ call.op = "get_recalls_for_vehicle" =>
                 /\ Len(call.result.v) = Len(entries)
                 /\ \A i \in 1..Len(entries) :
                       call.result.v[i].additional_fields = entries[i]
           /\ call.op = "get_recall_by_campaign_number" =>
                 IF entries = <<>> THEN call.result = None
                 ELSE /\ call.result # None
                      /\ call.result.additional_fields = entries[1]

====
